---- MODULE Spec2Model ----
\* Provider detection of the Kasanova dApp SDK: the synchronous presence
\* checks and the two bounded waits waitForKasware / waitForKasanovaL2.
\* The repository holds two versions of the detect module; both are modelled:
\*   "part_001"  = src/unnamed/part_001 (timer handle kept, shape checks, re-check)
\*   "detect_ts" = src/src/detect.ts    (no timer handle, no shape checks, no re-check)
\* hasWindow tells whether the global object window exists; probe holds the
\* last synchronous call since the host last wrote a slot (function, argument,
\* result).  hook is the component state and the effects of the React hook
\* useKasanova of the example (src/unnamed/part_002).
EXTENDS Integers, Sequences, FiniteSets, TLC

VARIABLES impl, hasWindow, kasanova, kasware, ethereum, now, call, probe, hook

vars == <<impl, hasWindow, kasanova, kasware, ethereum, now, call, probe, hook>>

\* ---------------------------------------------------------------- bounds
MaxTime == 2

Calls == {1, 2}
\* the call made when the page makes a single call
Solo == {1}
Timeouts == {1, 2}
Impls == {"part_001", "detect_ts"}

\* ------------------------------------------------- JavaScript values
\* A value is named by an identifier; Fns gives the properties that are
\* functions, Flag the value of the isKasanova property.
KaswareValues == {"undefined", "null", "kwA", "kwB", "kwBad"}
EthereumValues == {"undefined", "null", "ethA", "ethB", "ethGeneric", "ethBad"}
KasanovaValues == {"undefined", "null", "prim", "ns"}
\* every content of a slot: also a primitive, and isKasanova flags other than true
AnyKaswareValues == KaswareValues \cup {"prim", "kwNoGet", "kwNoReq", "empty"}
AnyEthereumValues == EthereumValues \cup {"prim", "ethFalse", "ethOne", "ethNoOn"}
\* the arguments the shape checks are applied to
ShapeInputs == AnyKaswareValues \cup AnyEthereumValues \cup {"ns", "fnAll"}
AnnouncedProviders == {"undefined", "ethBad", "ethA", "ethB"}
Rdns == {"undefined", "io.metamask", "app.kasanova"}

Fns(v) ==
  CASE v = "kwA" -> {"requestAccounts", "getAccounts", "on"}
    [] v = "kwB" -> {"requestAccounts", "getAccounts", "on"}
    [] v = "kwBad" -> {"requestAccounts", "getAccounts"}
    [] v = "ethA" -> {"request", "on"}
    [] v = "ethB" -> {"request", "on"}
    [] v = "ethGeneric" -> {"request", "on"}
    [] v = "ethBad" -> {"on"}
    [] v = "kwNoGet" -> {"requestAccounts", "on"}
    [] v = "kwNoReq" -> {"getAccounts", "on"}
    [] v = "ethFalse" -> {"request", "on"}
    [] v = "ethOne" -> {"request", "on"}
    [] v = "ethNoOn" -> {"request"}
    [] v = "fnAll" -> {"requestAccounts", "getAccounts", "request", "on"}
    [] OTHER -> {}

Flag(v) ==
  CASE v \in {"ethA", "ethB", "ethBad", "ethNoOn"} -> "true"
    [] v = "ethFalse" -> "false"
    [] v = "ethOne" -> "1"
    [] OTHER -> "undefined"

TypeOf(v) ==
  CASE v = "undefined" -> "undefined"
    [] v = "prim" -> "number"
    [] v = "fnAll" -> "function"
    [] OTHER -> "object"

Truthy(v) == v \notin {"undefined", "null"}

\* ------------------------------------------------- presence and shape
\* a presence check that also demands the provider's shape
isKaswareAvailableShaped ==
  /\ hasWindow
  /\ TypeOf(kasware) # "undefined"
  /\ {"requestAccounts", "getAccounts", "on"} \subseteq Fns(kasware)

isKasanova == hasWindow /\ TypeOf(kasanova) # "undefined"

isKaswareAvailable == hasWindow /\ TypeOf(kasware) # "undefined"

\* a check that accepts any truthy isKasanova flag
isKasanovaL2AvailableTruthy ==
  IF ~hasWindow THEN "false"
  ELSE IF TypeOf(ethereum) = "undefined" THEN "false"
  ELSE IF ethereum = "null" THEN "throw"
  ELSE IF Flag(ethereum) \in {"true", "1"} THEN "true" ELSE "false"

\* "true" / "false", or "throw": reading .isKasanova of null raises a TypeError
isKasanovaL2Available ==
  IF ~hasWindow THEN "false"
  ELSE IF TypeOf(ethereum) = "undefined" THEN "false"
  ELSE IF ethereum = "null" THEN "throw"
  ELSE IF Flag(ethereum) = "true" THEN "true" ELSE "false"

getKasanova == IF ~isKasanova THEN "null" ELSE kasanova

getKaswareProvider == IF ~isKaswareAvailable THEN "null" ELSE kasware

getKasanovaL2Provider ==
  CASE isKasanovaL2Available = "throw" -> "throw"
    [] isKasanovaL2Available = "false" -> "null"
    [] OTHER -> ethereum

\* a shape check that does not ask for on
hasKaswareShapeNoOn(obj) ==
  /\ TypeOf(obj) = "object"
  /\ obj # "null"
  /\ {"requestAccounts", "getAccounts"} \subseteq Fns(obj)

hasKaswareShape(obj) ==
  /\ TypeOf(obj) = "object"
  /\ obj # "null"
  /\ {"requestAccounts", "getAccounts", "on"} \subseteq Fns(obj)

hasEthereumProviderShape(obj) ==
  /\ TypeOf(obj) = "object"
  /\ obj # "null"
  /\ {"request", "on"} \subseteq Fns(obj)

\* ------------------------------------------------- error messages
DispatchError == <<"Error thrown by window.dispatchEvent">>
NullRead == <<"TypeError: Cannot read properties of null (reading 'isKasanova')">>

IsKasanovaSuffix ==
  IF Truthy(ethereum) THEN <<", isKasanova=", Flag(ethereum)>> ELSE <<>>

KaswareInitError == <<"Provider initialization event fired but window.kasware does not implement the expected API. ", "Ensure Kasanova or KasWare is properly installed.">>

KaswareInitErrorLegacy == <<"Provider initialization event fired but window.kasware is not set">>

KaswareTimeoutError(timeoutMs) ==
  <<"Kasanova wallet not detected after ", ToString(timeoutMs), "ms. ",
    "window.kasware is ", TypeOf(kasware), ". ", "Is the dApp open inside Kasanova?">>

KaswareTimeoutErrorLegacy == <<"Kasanova wallet not detected. Is the dApp open inside Kasanova?">>

L2InitError ==
  <<"ethereum#initialized fired but window.ethereum.isKasanova is not true. ",
    "window.ethereum is ", TypeOf(ethereum)>> \o IsKasanovaSuffix
    \o <<". Another wallet extension may have claimed window.ethereum.">>

L2InitErrorLegacy == <<"Provider initialized but isKasanova flag not set">>

L2TimeoutError(timeoutMs) ==
  <<"Kasanova L2 provider not detected after ", ToString(timeoutMs), "ms. ",
    "window.ethereum is ", TypeOf(ethereum)>> \o IsKasanovaSuffix \o <<".">>

L2TimeoutErrorLegacy == <<"Kasanova L2 provider not detected.">>

\* ------------------------------------------------- one wait call
KaswareListeners == {"kasware#initialized", "kasanova:ready"}
L2Listeners == {"ethereum#initialized", "eip6963:announceProvider"}

NewCall ==
  [kind |-> "none", timeoutMs |-> 0, pc |-> "unstarted", settled |-> FALSE,
   listeners |-> {}, timer |-> "unset", deadline |-> 0,
   promise |-> "pending", value |-> "none", error |-> <<>>,
   resolveCalls |-> 0, rejectCalls |-> 0, dispatched |-> FALSE, uncaught |-> FALSE,
   \* history of the call, written by no handler
   path |-> "none", startedAt |-> 0, slotAtStart |-> "none",
   slotAfterRegistration |-> "none", initSlot |-> "none",
   badAnnounce |-> FALSE, goodAnnounce |-> "none", quiet |-> TRUE,
   dispatchThrew |-> FALSE]

\* the promise's resolving functions: only the first invocation has effect
resolve(r, v, path) ==
  [r EXCEPT !.resolveCalls = @ + 1,
            !.promise = IF @ = "pending" THEN "fulfilled" ELSE @,
            !.value = IF r.promise = "pending" THEN v ELSE @,
            !.path = IF r.promise = "pending" THEN path ELSE @]

reject(r, e, path) ==
  [r EXCEPT !.rejectCalls = @ + 1,
            !.promise = IF @ = "pending" THEN "rejected" ELSE @,
            !.error = IF r.promise = "pending" THEN e ELSE @,
            !.path = IF r.promise = "pending" THEN path ELSE @]

\* an exception that escapes the promise executor rejects the promise
executorThrows(r, e) ==
  [r EXCEPT !.promise = IF @ = "pending" THEN "rejected" ELSE @,
            !.error = IF r.promise = "pending" THEN e ELSE @,
            !.path = IF r.promise = "pending" THEN "throw" ELSE @,
            !.pc = "returned"]

clearTimeout(r) == [r EXCEPT !.timer = IF @ = "scheduled" THEN "cleared" ELSE @]

setTimeout(r) ==
  [r EXCEPT !.timer = "scheduled", !.deadline = now + r.timeoutMs, !.pc = "returned"]

\* --- waitForKasware, src/unnamed/part_001
cleanupKasware(r) == [clearTimeout(r) EXCEPT !.listeners = @ \ KaswareListeners]

\* a handler that keeps waiting when the handle is invalid
onInitKaswareKeepsWaiting(r, path) ==
  IF r.settled THEN r
  ELSE IF Truthy(kasware) /\ hasKaswareShape(kasware)
       THEN resolve(cleanupKasware([r EXCEPT !.settled = TRUE]), kasware, path)
       ELSE r

onInitKasware(r, path) ==
  IF r.settled THEN r
  ELSE LET s == cleanupKasware([r EXCEPT !.settled = TRUE]) IN
       IF Truthy(kasware) /\ hasKaswareShape(kasware)
       THEN resolve(s, kasware, path)
       ELSE reject(s, KaswareInitError, path)

onTimeoutKasware(r) ==
  LET f == [r EXCEPT !.timer = "fired"] IN
  IF f.settled THEN f
  ELSE reject(cleanupKasware([f EXCEPT !.settled = TRUE]),
              KaswareTimeoutError(r.timeoutMs), "timeout")

\* a re-check that runs onInit for any content of the slot
afterRegistrationKaswareUnshaped(r) ==
  IF isKaswareAvailable
  THEN [onInitKasware(r, "recheck") EXCEPT !.pc = "returned"]
  ELSE setTimeout(r)

\* the executor from the re-check to its return
afterRegistrationKasware(r) ==
  IF isKaswareAvailable /\ hasKaswareShape(kasware)
  THEN [onInitKasware(r, "recheck") EXCEPT !.pc = "returned"]
  ELSE setTimeout(r)

\* --- waitForKasware, src/src/detect.ts
cleanupKaswareLegacy(r) == [r EXCEPT !.listeners = @ \ KaswareListeners]

onInitKaswareLegacy(r, path) ==
  IF r.settled THEN r
  ELSE LET s == cleanupKaswareLegacy([r EXCEPT !.settled = TRUE]) IN
       IF isKaswareAvailable
       THEN resolve(s, kasware, path)
       ELSE reject(s, KaswareInitErrorLegacy, path)

onTimeoutKaswareLegacy(r) ==
  LET f == [r EXCEPT !.timer = "fired"] IN
  IF f.settled THEN f
  ELSE reject(cleanupKaswareLegacy([f EXCEPT !.settled = TRUE]),
              KaswareTimeoutErrorLegacy, "timeout")

afterRegistrationKaswareLegacy(r) == setTimeout(r)

\* --- waitForKasanovaL2, src/unnamed/part_001
cleanupL2(r) == [clearTimeout(r) EXCEPT !.listeners = @ \ L2Listeners]

\* a handler that resolves with the provider it saw when the call began
onInitL2Cached(r, path) ==
  IF r.settled THEN r
  ELSE LET s == cleanupL2([r EXCEPT !.settled = TRUE]) IN
       CASE isKasanovaL2Available = "true" -> resolve(s, r.slotAtStart, path)
         [] isKasanovaL2Available = "false" -> reject(s, L2InitError, path)
         [] OTHER -> [s EXCEPT !.uncaught = TRUE]

onInitL2(r, path) ==
  IF r.settled THEN r
  ELSE LET s == cleanupL2([r EXCEPT !.settled = TRUE]) IN
       CASE isKasanovaL2Available = "true" -> resolve(s, ethereum, path)
         [] isKasanovaL2Available = "false" -> reject(s, L2InitError, path)
         [] OTHER -> [s EXCEPT !.uncaught = TRUE]

\* a listener that takes the announcement of any wallet
onAnnounceL2AnyRdns(r, ev) ==
  IF r.settled THEN r
  ELSE IF ~Truthy(ev.provider) \/ ~hasEthereumProviderShape(ev.provider)
       THEN r
       ELSE resolve(cleanupL2([r EXCEPT !.settled = TRUE]), ev.provider, "announce")

onAnnounceL2(r, ev) ==
  IF ev.rdns = "app.kasanova"
  THEN IF r.settled THEN r
       ELSE IF ~Truthy(ev.provider) \/ ~hasEthereumProviderShape(ev.provider)
            THEN r
            ELSE resolve(cleanupL2([r EXCEPT !.settled = TRUE]), ev.provider, "announce")
  ELSE r

\* the timer callback without its settled guard
onTimeoutL2Unguarded(r) ==
  LET f == [r EXCEPT !.timer = "fired"] IN
  reject(cleanupL2([f EXCEPT !.settled = TRUE]), L2TimeoutError(r.timeoutMs), "timeout")

onTimeoutL2(r) ==
  LET f == [r EXCEPT !.timer = "fired"] IN
  IF f.settled THEN f
  ELSE reject(cleanupL2([f EXCEPT !.settled = TRUE]),
              L2TimeoutError(r.timeoutMs), "timeout")

\* the re-check after registration: "settle", "throw" or "continue"
recheckL2 ==
  CASE isKasanovaL2Available = "true" -> "settle"
    [] isKasanovaL2Available = "throw" -> "throw"
    [] OTHER -> "continue"

\* --- waitForKasanovaL2, src/src/detect.ts
cleanupL2Legacy(r) == [r EXCEPT !.listeners = @ \ L2Listeners]

onInitL2Legacy(r, path) ==
  IF r.settled THEN r
  ELSE LET s == cleanupL2Legacy([r EXCEPT !.settled = TRUE]) IN
       CASE isKasanovaL2Available = "true" -> resolve(s, ethereum, path)
         [] isKasanovaL2Available = "false" -> reject(s, L2InitErrorLegacy, path)
         [] OTHER -> [s EXCEPT !.uncaught = TRUE]

onAnnounceL2Legacy(r, ev) ==
  IF ev.rdns = "app.kasanova"
  THEN IF r.settled THEN r
       ELSE resolve(cleanupL2Legacy([r EXCEPT !.settled = TRUE]), ev.provider, "announce")
  ELSE r

onTimeoutL2Legacy(r) ==
  LET f == [r EXCEPT !.timer = "fired"] IN
  IF f.settled THEN f
  ELSE reject(cleanupL2Legacy([f EXCEPT !.settled = TRUE]),
              L2TimeoutErrorLegacy, "timeout")

recheckL2Legacy == "continue"

\* --- the version of the module that is loaded
onInit(r, path) ==
  CASE r.kind = "L1" /\ impl = "part_001" -> onInitKasware(r, path)
    [] r.kind = "L1" /\ impl = "detect_ts" -> onInitKaswareLegacy(r, path)
    [] r.kind = "L2" /\ impl = "part_001" -> onInitL2(r, path)
    [] OTHER -> onInitL2Legacy(r, path)

onAnnounce(r, ev) ==
  IF impl = "part_001" THEN onAnnounceL2(r, ev) ELSE onAnnounceL2Legacy(r, ev)

onTimeout(r) ==
  CASE r.kind = "L1" /\ impl = "part_001" -> onTimeoutKasware(r)
    [] r.kind = "L1" /\ impl = "detect_ts" -> onTimeoutKaswareLegacy(r)
    [] r.kind = "L2" /\ impl = "part_001" -> onTimeoutL2(r)
    [] OTHER -> onTimeoutL2Legacy(r)

afterRegistration(r) ==
  IF impl = "part_001" THEN afterRegistrationKasware(r)
  ELSE afterRegistrationKaswareLegacy(r)

recheck == IF impl = "part_001" THEN recheckL2 ELSE recheckL2Legacy

\* ------------------------------------------------- scheduling
Started(r) == r.pc # "unstarted"
\* the executor of r is on the stack
Running(r) == r.pc \in {"registering", "registered", "dispatching"}
Idle == \A c \in Calls : ~Running(call[c])
\* host code that runs while an executor is on the stack can dispatch events
\* only from a listener of eip6963:requestProvider
MayDispatch == \A c \in Calls : call[c].pc \notin {"registering", "registered"}
\* r is waiting for an event or its timer
Waiting(r) == r.promise = "pending" /\ ~r.settled /\ r.pc \in {"dispatching", "returned"}

SlotOf(kind) == IF kind = "L1" THEN kasware ELSE ethereum
ListenersOf(kind) == IF kind = "L1" THEN KaswareListeners ELSE L2Listeners
KindOfEvent(evt) == IF evt = "ethereum#initialized" THEN "L2" ELSE "L1"
InitEvents == {"kasware#initialized", "kasanova:ready", "ethereum#initialized"}
Announcements == [rdns : Rdns, provider : AnnouncedProviders]

\* no synchronous call made yet
NoProbe == [fn |-> "none", arg |-> "none", result |-> "none", again |-> FALSE]

\* ------------------------------------------------- the hook useKasanova
NotDetected == "Kasanova wallet not detected. Open this page inside Kasanova."
LoadingOps == {"connect", "sendKaspa", "signMessage"}

\* useState's initial value; no effect has run, no operation is in flight
NewHook ==
  [mounted |-> FALSE, unmounted |-> FALSE,
   detected |-> FALSE, connected |-> FALSE, address |-> "null", network |-> "null",
   balance |-> "null", loading |-> FALSE, error |-> "null",
   \* the detection effect: its window listeners and its timer
   listeners |-> {}, timer |-> "unset",
   \* the subscription effect: the provider it called on() of, and whether a
   \* render with a new value of detected has still to run it again
   subscribed |-> "none", effectDue |-> FALSE,
   \* operations awaiting the provider; the await connect is at (0: none)
   pending |-> {}, stage |-> 0, accounts |-> "none",
   \* history: refreshBalance was called
   refreshed |-> FALSE]

\* setState after unmount changes nothing
setState(h, next) == IF h.mounted THEN next ELSE h

\* check() of the detection effect
check(h) ==
  IF Truthy(kasware)
  THEN setState(h, [h EXCEPT !.detected = TRUE, !.effectDue = @ \/ ~h.detected])
  ELSE h

\* window.dispatchEvent runs onInit of the detection effect, if registered
hookOnInit(h, evt) == IF evt \in h.listeners THEN check(h) ELSE h

\* the body of the subscription effect
subscribe(h) ==
  [h EXCEPT !.subscribed = IF Truthy(kasware) THEN kasware ELSE "none",
            !.effectDue = FALSE]

\* the catch block of connect, sendKaspa and signMessage
operationFails(h, op) ==
  setState([h EXCEPT !.pending = @ \ {op}],
           [h EXCEPT !.pending = @ \ {op}, !.loading = FALSE, !.error = "operation failed"])

\* ------------------------------------------------- operations
Init ==
  /\ impl \in Impls
  /\ hasWindow = TRUE
  /\ kasanova = "undefined"
  /\ probe = NoProbe
  /\ hook = NewHook
  /\ kasware \in KaswareValues
  /\ ethereum \in EthereumValues
  /\ now = 0
  /\ call = [c \in Calls |-> NewCall]

\* the executor of a new call up to the first addEventListener
beginKasware(t) ==
  LET r == [NewCall EXCEPT !.kind = "L1", !.timeoutMs = t, !.startedAt = now,
                           !.slotAtStart = kasware] IN
  IF isKaswareAvailable
  THEN [resolve(r, kasware, "immediate") EXCEPT !.pc = "returned"]
  ELSE [r EXCEPT !.pc = "registering"]

beginKasanovaL2(t) ==
  LET r == [NewCall EXCEPT !.kind = "L2", !.timeoutMs = t, !.startedAt = now,
                           !.slotAtStart = ethereum] IN
  CASE isKasanovaL2Available = "true" ->
         [resolve(r, ethereum, "immediate") EXCEPT !.pc = "returned"]
    [] isKasanovaL2Available = "throw" -> executorThrows(r, NullRead)
    [] OTHER -> [r EXCEPT !.pc = "registering"]

\* the two window.addEventListener calls of r
addEventListeners(r) ==
  [r EXCEPT !.listeners = @ \cup ListenersOf(r.kind), !.pc = "registered"]

\* the re-check of waitForKasanovaL2 settles r or throws
recheckSettles(r) ==
  IF recheck = "settle"
  THEN [onInit(r, "recheck") EXCEPT !.pc = "returned"]
  ELSE executorThrows(r, NullRead)

\* the dispatch made before the listeners are registered
dispatchStartsUnregistered(r) ==
  [r EXCEPT !.dispatched = TRUE, !.pc = "dispatching", !.listeners = {}]

\* dispatchEvent(eip6963:requestProvider) starts for r
dispatchStarts(r) == [r EXCEPT !.dispatched = TRUE, !.pc = "dispatching"]

\* waitForKasware(t): the executor up to the first addEventListener
waitForKasware(c, t) ==
  /\ Idle
  /\ ~Started(call[c])
  /\ \A d \in Calls : d < c => Started(call[d])
  /\ call' = [call EXCEPT ![c] = beginKasware(t)]
  /\ UNCHANGED <<impl, hook, hasWindow, kasanova, kasware, ethereum, now, probe>>

\* waitForKasanovaL2(t): the executor up to the first addEventListener
waitForKasanovaL2(c, t) ==
  /\ Idle
  /\ ~Started(call[c])
  /\ \A d \in Calls : d < c => Started(call[d])
  /\ call' = [call EXCEPT ![c] = beginKasanovaL2(t)]
  /\ UNCHANGED <<impl, hook, hasWindow, kasanova, kasware, ethereum, now, probe>>

\* the two window.addEventListener calls
Register(c) ==
  /\ call[c].pc = "registering"
  /\ call' = [call EXCEPT ![c] = addEventListeners(call[c])]
  /\ UNCHANGED <<impl, hook, hasWindow, kasanova, kasware, ethereum, now, probe>>

\* waitForKasware from the end of registration to the return of the executor
ContinueKasware(c) ==
  /\ call[c].pc = "registered"
  /\ call[c].kind = "L1"
  /\ call' = [call EXCEPT ![c] =
       afterRegistration([call[c] EXCEPT !.slotAfterRegistration = kasware])]
  /\ UNCHANGED <<impl, hook, hasWindow, kasanova, kasware, ethereum, now, probe>>

\* waitForKasanovaL2: the re-check settles the call or throws
RecheckL2(c) ==
  /\ call[c].pc = "registered"
  /\ call[c].kind = "L2"
  /\ recheck # "continue"
  /\ call' = [call EXCEPT ![c] =
       recheckSettles([call[c] EXCEPT !.slotAfterRegistration = ethereum])]
  /\ UNCHANGED <<impl, hook, hasWindow, kasanova, kasware, ethereum, now, probe>>

\* waitForKasanovaL2: window.dispatchEvent(eip6963:requestProvider) starts;
\* the listeners of the page run before it returns
RequestProvider(c) ==
  /\ call[c].pc = "registered"
  /\ call[c].kind = "L2"
  /\ recheck = "continue"
  /\ call' = [call EXCEPT ![c] =
       dispatchStarts([call[c] EXCEPT !.slotAfterRegistration = ethereum])]
  /\ UNCHANGED <<impl, hook, hasWindow, kasanova, kasware, ethereum, now, probe>>

\* the exception of dispatchEvent escapes the executor: no timer, rejection
dispatchFailsUncaught(r) ==
  [executorThrows([r EXCEPT !.dispatched = TRUE, !.dispatchThrew = TRUE], DispatchError)
     EXCEPT !.pc = "returned"]

\* try { dispatchEvent } catch: the exception is swallowed, then setTimeout
dispatchFails(r) == setTimeout([r EXCEPT !.dispatched = TRUE, !.dispatchThrew = TRUE])

\* waitForKasanovaL2: dispatchEvent throws (caught), then setTimeout
RequestProviderFails(c) ==
  /\ call[c].pc = "registered"
  /\ call[c].kind = "L2"
  /\ recheck = "continue"
  /\ call' = [call EXCEPT ![c] =
       dispatchFails([call[c] EXCEPT !.slotAfterRegistration = ethereum])]
  /\ UNCHANGED <<impl, hook, hasWindow, kasanova, kasware, ethereum, now, probe>>

\* waitForKasanovaL2: dispatchEvent returns, then setTimeout
DispatchReturns(c) ==
  /\ call[c].pc = "dispatching"
  /\ call' = [call EXCEPT ![c] = setTimeout(call[c])]
  /\ UNCHANGED <<impl, hook, hasWindow, kasanova, kasware, ethereum, now, probe>>

\* a timer callback whose cleanup removes the listeners of every call
TimerFiresShared(c) ==
  /\ Idle
  /\ call[c].timer = "scheduled"
  /\ now >= call[c].deadline
  /\ call' = [d \in Calls |->
       IF d = c THEN onTimeout(call[c]) ELSE [call[d] EXCEPT !.listeners = {}]]
  /\ UNCHANGED <<impl, hook, hasWindow, kasanova, kasware, ethereum, now, probe>>

\* the timer callback of call c
TimerFires(c) ==
  /\ Idle
  /\ call[c].timer = "scheduled"
  /\ now >= call[c].deadline
  /\ call' = [call EXCEPT ![c] = onTimeout(call[c])]
  /\ UNCHANGED <<impl, hook, hasWindow, kasanova, kasware, ethereum, now, probe>>

\* --- the host
\* window.dispatchEvent runs the listener of r for evt, if r registered one
deliverInit(r, evt) ==
  LET h == IF Waiting(r) /\ r.kind = KindOfEvent(evt)
           THEN [r EXCEPT !.quiet = FALSE,
                          !.initSlot = IF @ = "none" THEN SlotOf(r.kind) ELSE @]
           ELSE r
  IN IF evt \in r.listeners THEN onInit(h, "init") ELSE h

deliverAnnounce(r, ev) ==
  LET valid == Truthy(ev.provider) /\ hasEthereumProviderShape(ev.provider)
      h == IF Waiting(r) /\ r.kind = "L2" /\ ev.rdns = "app.kasanova"
           THEN IF valid
                THEN [r EXCEPT !.quiet = FALSE,
                               !.goodAnnounce = IF @ = "none" THEN ev.provider ELSE @]
                ELSE [r EXCEPT !.badAnnounce = TRUE]
           ELSE r
  IN IF "eip6963:announceProvider" \in r.listeners THEN onAnnounce(h, ev) ELSE h

\* the host assigns v to the slot of r's kind
slotWritten(r, kind, v) ==
  IF Started(r) /\ r.kind = kind /\ v # "undefined"
  THEN [r EXCEPT !.quiet = FALSE] ELSE r

HostSetKasware(v) ==
  /\ hasWindow
  /\ v # kasware
  /\ kasware' = v
  /\ call' = [c \in Calls |-> slotWritten(call[c], "L1", v)]
  /\ probe' = NoProbe
  /\ UNCHANGED <<impl, hook, hasWindow, kasanova, ethereum, now>>

HostSetEthereum(v) ==
  /\ hasWindow
  /\ v # ethereum
  /\ ethereum' = v
  /\ call' = [c \in Calls |-> slotWritten(call[c], "L2", v)]
  /\ probe' = NoProbe
  /\ UNCHANGED <<impl, hook, hasWindow, kasanova, kasware, now>>

\* the host dispatches an initialization event on window
HostInit(evt) ==
  /\ MayDispatch
  /\ call' = [c \in Calls |-> deliverInit(call[c], evt)]
  /\ hook' = hookOnInit(hook, evt)
  /\ UNCHANGED <<impl, hasWindow, kasanova, kasware, ethereum, now, probe>>

\* a wallet dispatches eip6963:announceProvider on window
HostAnnounce(ev) ==
  /\ MayDispatch
  /\ call' = [c \in Calls |-> deliverAnnounce(call[c], ev)]
  /\ UNCHANGED <<impl, hook, hasWindow, kasanova, kasware, ethereum, now, probe>>

Tick ==
  /\ Idle
  /\ now < MaxTime
  /\ now' = now + 1
  /\ UNCHANGED <<impl, hook, hasWindow, kasanova, kasware, ethereum, call, probe>>

Next ==
  \/ \E c \in Solo, t \in Timeouts : waitForKasware(c, t)
  \/ \E c \in Solo, t \in Timeouts : waitForKasanovaL2(c, t)
  \/ \E c \in Solo : Register(c)
  \/ \E c \in Solo : ContinueKasware(c)
  \/ \E c \in Solo : RecheckL2(c)
  \/ \E c \in Solo : RequestProvider(c)
  \/ \E c \in Solo : RequestProviderFails(c)
  \/ \E c \in Solo : DispatchReturns(c)
  \/ \E c \in Solo : TimerFires(c)
  \/ \E v \in KaswareValues : HostSetKasware(v)
  \/ \E v \in EthereumValues : HostSetEthereum(v)
  \/ \E evt \in InitEvents : HostInit(evt)
  \/ \E ev \in Announcements : HostAnnounce(ev)
  \/ Tick

Spec == Init /\ [][Next]_vars

\* --- several calls pending at once
ConcurrentKaswareValues == {"undefined", "kwA"}
ConcurrentEthereumValues == {"undefined", "ethA"}
ConcurrentAnnouncements == {[rdns |-> "app.kasanova", provider |-> "ethA"]}

NextConcurrent ==
  \/ \E c \in Calls, t \in Timeouts : waitForKasware(c, t)
  \/ \E c \in Calls, t \in Timeouts : waitForKasanovaL2(c, t)
  \/ \E c \in Calls : Register(c)
  \/ \E c \in Calls : ContinueKasware(c)
  \/ \E c \in Calls : RecheckL2(c)
  \/ \E c \in Calls : RequestProvider(c)
  \/ \E c \in Calls : RequestProviderFails(c)
  \/ \E c \in Calls : DispatchReturns(c)
  \/ \E c \in Calls : TimerFires(c)
  \/ \E v \in ConcurrentKaswareValues : HostSetKasware(v)
  \/ \E v \in ConcurrentEthereumValues : HostSetEthereum(v)
  \/ \E evt \in InitEvents : HostInit(evt)
  \/ \E ev \in ConcurrentAnnouncements : HostAnnounce(ev)
  \/ Tick

InitConcurrent == Init /\ kasware = "undefined" /\ ethereum = "undefined"

SpecConcurrent == InitConcurrent /\ [][NextConcurrent]_vars

\* --- the synchronous functions, called by the page
Bool(b) == IF b THEN "true" ELSE "false"

\* the record of a synchronous call that returned (or raised) result
Returned(fn, arg, result) ==
  [fn |-> fn, arg |-> arg, result |-> result,
   \* the call before it, with no host write in between, was the same call
   again |-> (probe.fn = fn /\ probe.arg = arg)]

CallIsKasanova ==
  /\ Idle
  /\ probe' = Returned("isKasanova", "none", Bool(isKasanova))
  /\ UNCHANGED <<impl, hook, hasWindow, kasanova, kasware, ethereum, now, call>>

CallIsKaswareAvailable ==
  /\ Idle
  /\ probe' = Returned("isKaswareAvailable", "none", Bool(isKaswareAvailable))
  /\ UNCHANGED <<impl, hook, hasWindow, kasanova, kasware, ethereum, now, call>>

CallIsKasanovaL2Available ==
  /\ Idle
  /\ probe' = Returned("isKasanovaL2Available", "none", isKasanovaL2Available)
  /\ UNCHANGED <<impl, hook, hasWindow, kasanova, kasware, ethereum, now, call>>

CallGetKasanova ==
  /\ Idle
  /\ probe' = Returned("getKasanova", "none", getKasanova)
  /\ UNCHANGED <<impl, hook, hasWindow, kasanova, kasware, ethereum, now, call>>

\* an accessor that clears the slot it has read
CallGetKaswareProviderNormalising ==
  /\ Idle
  /\ probe' = Returned("getKaswareProvider", "none", getKaswareProvider)
  /\ kasware' = IF kasware = "kwA" THEN "undefined" ELSE kasware
  /\ UNCHANGED <<impl, hook, hasWindow, kasanova, ethereum, now, call>>

CallGetKaswareProvider ==
  /\ Idle
  /\ probe' = Returned("getKaswareProvider", "none", getKaswareProvider)
  /\ UNCHANGED <<impl, hook, hasWindow, kasanova, kasware, ethereum, now, call>>

\* an accessor that solicits announcements before it answers
CallGetKasanovaL2ProviderSoliciting ==
  /\ Idle
  /\ probe' = Returned("getKasanovaL2Provider", "none", getKasanovaL2Provider)
  /\ call' = [c \in Calls |->
       IF Started(call[c]) THEN [call[c] EXCEPT !.dispatched = TRUE] ELSE call[c]]
  /\ UNCHANGED <<impl, hook, hasWindow, kasanova, kasware, ethereum, now>>

CallGetKasanovaL2Provider ==
  /\ Idle
  /\ probe' = Returned("getKasanovaL2Provider", "none", getKasanovaL2Provider)
  /\ UNCHANGED <<impl, hook, hasWindow, kasanova, kasware, ethereum, now, call>>

CallHasKaswareShape(obj) ==
  /\ Idle
  /\ probe' = Returned("hasKaswareShape", obj, Bool(hasKaswareShape(obj)))
  /\ UNCHANGED <<impl, hook, hasWindow, kasanova, kasware, ethereum, now, call>>

CallHasEthereumProviderShape(obj) ==
  /\ Idle
  /\ probe' = Returned("hasEthereumProviderShape", obj, Bool(hasEthereumProviderShape(obj)))
  /\ UNCHANGED <<impl, hook, hasWindow, kasanova, kasware, ethereum, now, call>>

HostSetKasanova(v) ==
  /\ hasWindow
  /\ v # kasanova
  /\ kasanova' = v
  /\ probe' = NoProbe
  /\ UNCHANGED <<impl, hook, hasWindow, kasware, ethereum, now, call>>

\* any environment: no window at all, or any content of the three slots
InitPure ==
  /\ impl \in Impls
  /\ hasWindow \in BOOLEAN
  /\ kasanova \in (IF hasWindow THEN KasanovaValues ELSE {"undefined"})
  /\ kasware \in (IF hasWindow THEN AnyKaswareValues ELSE {"undefined"})
  /\ ethereum \in (IF hasWindow THEN AnyEthereumValues ELSE {"undefined"})
  /\ now = 0
  /\ call = [c \in Calls |-> NewCall]
  /\ probe = NoProbe
  /\ hook = NewHook

NextPure ==
  \/ CallIsKasanova
  \/ CallIsKaswareAvailable
  \/ CallIsKasanovaL2Available
  \/ CallGetKasanova
  \/ CallGetKaswareProvider
  \/ CallGetKasanovaL2Provider
  \/ \E obj \in ShapeInputs : CallHasKaswareShape(obj)
  \/ \E obj \in ShapeInputs : CallHasEthereumProviderShape(obj)
  \/ \E v \in KasanovaValues : HostSetKasanova(v)
  \/ \E v \in AnyKaswareValues : HostSetKasware(v)
  \/ \E v \in AnyEthereumValues : HostSetEthereum(v)

SpecPure == InitPure /\ [][NextPure]_vars

\* --- the whole package: predicates, accessors and one wait call
SdkKasanovaValues == {"undefined", "ns"}
SdkKaswareValues == {"undefined", "kwA"}
SdkEthereumValues == {"undefined", "ethA", "ethOne"}
SdkAnnouncements == {[rdns |-> "app.kasanova", provider |-> "ethA"]}
SdkTimeouts == {1}

InitSdk ==
  /\ impl \in Impls
  /\ hasWindow = TRUE
  /\ kasanova \in SdkKasanovaValues
  /\ kasware \in SdkKaswareValues
  /\ ethereum \in SdkEthereumValues
  /\ now = 0
  /\ call = [c \in Calls |-> NewCall]
  /\ probe = NoProbe
  /\ hook = NewHook

NextSdk ==
  \/ CallIsKasanova
  \/ CallIsKaswareAvailable
  \/ CallIsKasanovaL2Available
  \/ CallGetKasanova
  \/ CallGetKaswareProvider
  \/ CallGetKasanovaL2Provider
  \/ \E c \in Solo, t \in SdkTimeouts : waitForKasware(c, t)
  \/ \E c \in Solo, t \in SdkTimeouts : waitForKasanovaL2(c, t)
  \/ \E c \in Solo : Register(c)
  \/ \E c \in Solo : ContinueKasware(c)
  \/ \E c \in Solo : RecheckL2(c)
  \/ \E c \in Solo : RequestProvider(c)
  \/ \E c \in Solo : RequestProviderFails(c)
  \/ \E c \in Solo : DispatchReturns(c)
  \/ \E c \in Solo : TimerFires(c)
  \/ \E v \in SdkKasanovaValues : HostSetKasanova(v)
  \/ \E v \in SdkKaswareValues : HostSetKasware(v)
  \/ \E v \in SdkEthereumValues : HostSetEthereum(v)
  \/ \E evt \in InitEvents : HostInit(evt)
  \/ \E ev \in SdkAnnouncements : HostAnnounce(ev)
  \/ Tick

SpecSdk == InitSdk /\ [][NextSdk]_vars

\* --- the hook useKasanova of the example component
HookKaswareValues == {"undefined", "null", "kwA", "kwB"}
\* accounts[0] of an account list ("undefined": the list is empty)
FirstAccounts == {"undefined", "addrA", "addrB"}
Networks == {"kaspa_mainnet", "kaspa_testnet"}

\* first render committed: the detection effect, then the subscription effect
Mount ==
  /\ ~hook.mounted
  /\ ~hook.unmounted
  /\ LET m == [hook EXCEPT !.mounted = TRUE]
         d == IF Truthy(kasware) THEN check(m)
              ELSE [m EXCEPT !.listeners = KaswareListeners, !.timer = "scheduled"]
     IN hook' = [subscribe(d) EXCEPT !.effectDue = d.effectDue]
  /\ UNCHANGED <<impl, hasWindow, kasanova, kasware, ethereum, now, call, probe>>

\* a render in which detected changed: cleanup and body of the subscription effect
RerunSubscriptionEffect ==
  /\ hook.mounted
  /\ hook.effectDue
  /\ hook' = subscribe(hook)
  /\ UNCHANGED <<impl, hasWindow, kasanova, kasware, ethereum, now, call, probe>>

\* the callback of the detection timer
HookTimerFires ==
  /\ hook.mounted
  /\ hook.timer = "scheduled"
  /\ hook' = [hook EXCEPT !.timer = "fired",
                          !.error = IF Truthy(kasware) THEN @ ELSE NotDetected]
  /\ UNCHANGED <<impl, hasWindow, kasanova, kasware, ethereum, now, call, probe>>

\* the cleanups of both effects
Unmount ==
  /\ hook.mounted
  /\ hook' = [hook EXCEPT !.mounted = FALSE, !.unmounted = TRUE,
                          !.listeners = {},
                          !.timer = IF @ = "scheduled" THEN "cleared" ELSE @,
                          !.subscribed = "none", !.effectDue = FALSE]
  /\ UNCHANGED <<impl, hasWindow, kasanova, kasware, ethereum, now, call, probe>>

\* connect() up to its first await
connect ==
  /\ hook.mounted
  /\ "connect" \notin hook.pending
  /\ Truthy(kasware)
  /\ hook' = [hook EXCEPT !.loading = TRUE, !.error = "null",
                          !.pending = @ \cup {"connect"}, !.stage = 1]
  /\ UNCHANGED <<impl, hasWindow, kasanova, kasware, ethereum, now, call, probe>>

\* an await of connect resolves: requestAccounts, getNetwork, then getBalance
ConnectAwaitResolves(a, n) ==
  /\ "connect" \in hook.pending
  /\ hook' =
       IF hook.stage < 3
       THEN IF Truthy(kasware)
            THEN [hook EXCEPT !.stage = @ + 1,
                              !.accounts = IF hook.stage = 1 THEN a ELSE @]
            ELSE [operationFails(hook, "connect") EXCEPT !.stage = 0, !.accounts = "none"]
       ELSE LET done == [hook EXCEPT !.pending = @ \ {"connect"}, !.stage = 0,
                                     !.accounts = "none"]
            IN setState(done, [done EXCEPT !.connected = TRUE, !.address = hook.accounts,
                                           !.network = n, !.balance = "balance",
                                           !.loading = FALSE])
  /\ UNCHANGED <<impl, hasWindow, kasanova, kasware, ethereum, now, call, probe>>

\* an await of connect rejects
ConnectAwaitRejects ==
  /\ "connect" \in hook.pending
  /\ hook' = [operationFails(hook, "connect") EXCEPT !.stage = 0, !.accounts = "none"]
  /\ UNCHANGED <<impl, hasWindow, kasanova, kasware, ethereum, now, call, probe>>

\* sendKaspa() up to its await
sendKaspa ==
  /\ hook.mounted
  /\ "sendKaspa" \notin hook.pending
  /\ Truthy(kasware)
  /\ hook' = [hook EXCEPT !.loading = TRUE, !.error = "null",
                          !.pending = @ \cup {"sendKaspa"}]
  /\ UNCHANGED <<impl, hasWindow, kasanova, kasware, ethereum, now, call, probe>>

\* signMessage() up to its await
signMessage ==
  /\ hook.mounted
  /\ "signMessage" \notin hook.pending
  /\ Truthy(kasware)
  /\ hook' = [hook EXCEPT !.loading = TRUE, !.error = "null",
                          !.pending = @ \cup {"signMessage"}]
  /\ UNCHANGED <<impl, hasWindow, kasanova, kasware, ethereum, now, call, probe>>

\* the await of sendKaspa or signMessage resolves
AwaitResolves(op) ==
  /\ op \in hook.pending
  /\ LET done == [hook EXCEPT !.pending = @ \ {op}] IN
     hook' = setState(done, [done EXCEPT !.loading = FALSE])
  /\ UNCHANGED <<impl, hasWindow, kasanova, kasware, ethereum, now, call, probe>>

\* the await of sendKaspa or signMessage rejects
AwaitRejects(op) ==
  /\ op \in hook.pending
  /\ hook' = operationFails(hook, op)
  /\ UNCHANGED <<impl, hasWindow, kasanova, kasware, ethereum, now, call, probe>>

\* refreshBalance() up to its await
refreshBalance ==
  /\ hook.mounted
  /\ "refreshBalance" \notin hook.pending
  /\ Truthy(kasware)
  /\ hook' = [hook EXCEPT !.pending = @ \cup {"refreshBalance"}, !.refreshed = TRUE]
  /\ UNCHANGED <<impl, hasWindow, kasanova, kasware, ethereum, now, call, probe>>

\* getBalance of refreshBalance resolves (ok) or rejects
RefreshSettles(ok) ==
  /\ "refreshBalance" \in hook.pending
  /\ LET done == [hook EXCEPT !.pending = @ \ {"refreshBalance"}] IN
     hook' = setState(done, IF ok THEN [done EXCEPT !.balance = "balance"]
                                  ELSE [done EXCEPT !.error = "operation failed"])
  /\ UNCHANGED <<impl, hasWindow, kasanova, kasware, ethereum, now, call, probe>>

\* the provider emits accountsChanged; a is accounts[0]
onAccountsChanged(a) ==
  /\ hook.mounted
  /\ hook.subscribed # "none"
  /\ hook' = IF a = "undefined"
             THEN [hook EXCEPT !.connected = FALSE, !.address = "null", !.balance = "null"]
             ELSE [hook EXCEPT !.address = a]
  /\ UNCHANGED <<impl, hasWindow, kasanova, kasware, ethereum, now, call, probe>>

onNetworkChanged(n) ==
  /\ hook.mounted
  /\ hook.subscribed # "none"
  /\ hook' = [hook EXCEPT !.network = n]
  /\ UNCHANGED <<impl, hasWindow, kasanova, kasware, ethereum, now, call, probe>>

onDisconnect ==
  /\ hook.mounted
  /\ hook.subscribed # "none"
  /\ hook' = [hook EXCEPT !.connected = FALSE, !.address = "null", !.balance = "null"]
  /\ UNCHANGED <<impl, hasWindow, kasanova, kasware, ethereum, now, call, probe>>

InitHook ==
  /\ impl = "part_001"
  /\ hasWindow = TRUE
  /\ kasanova = "undefined"
  /\ kasware \in HookKaswareValues
  /\ ethereum = "undefined"
  /\ now = 0
  /\ call = [c \in Calls |-> NewCall]
  /\ probe = NoProbe
  /\ hook = NewHook

NextHook ==
  \/ Mount
  \/ RerunSubscriptionEffect
  \/ HookTimerFires
  \/ Unmount
  \/ connect
  \/ \E a \in FirstAccounts, n \in Networks : ConnectAwaitResolves(a, n)
  \/ ConnectAwaitRejects
  \/ sendKaspa
  \/ signMessage
  \/ \E op \in {"sendKaspa", "signMessage"} : AwaitResolves(op)
  \/ \E op \in {"sendKaspa", "signMessage"} : AwaitRejects(op)
  \/ refreshBalance
  \/ \E ok \in BOOLEAN : RefreshSettles(ok)
  \/ \E a \in FirstAccounts : onAccountsChanged(a)
  \/ \E n \in Networks : onNetworkChanged(n)
  \/ onDisconnect
  \/ \E v \in HookKaswareValues : HostSetKasware(v)
  \/ \E evt \in KaswareListeners : HostInit(evt)

SpecHook == InitHook /\ [][NextHook]_vars

\* the behaviours of each version of the module alone
SpecPart001 == Init /\ impl = "part_001" /\ [][Next]_vars
SpecDetectTs == Init /\ impl = "detect_ts" /\ [][Next]_vars

TypeOK ==
  /\ impl \in Impls
  /\ hasWindow \in BOOLEAN
  /\ kasanova \in KasanovaValues
  /\ kasware \in AnyKaswareValues
  /\ ethereum \in AnyEthereumValues
  /\ probe.again \in BOOLEAN
  /\ now \in 0..MaxTime
  /\ \A c \in Calls :
       /\ call[c].kind \in {"none", "L1", "L2"}
       /\ call[c].promise \in {"pending", "fulfilled", "rejected"}
       /\ call[c].timer \in {"unset", "scheduled", "cleared", "fired"}
  /\ hook.timer \in {"unset", "scheduled", "cleared", "fired"}
  /\ hook.pending \subseteq LoadingOps \cup {"refreshBalance"}
  /\ hook.detected \in BOOLEAN /\ hook.connected \in BOOLEAN /\ hook.loading \in BOOLEAN

\* ------------------------------------------------- vocabulary of the claims
TimeoutHeads ==
  {"Kasanova wallet not detected after ", "Kasanova L2 provider not detected after ",
   "Kasanova wallet not detected. Is the dApp open inside Kasanova?",
   "Kasanova L2 provider not detected."}

InvalidInitHeads ==
  {"Provider initialization event fired but window.kasware does not implement the expected API. ",
   "Provider initialization event fired but window.kasware is not set",
   "ethereum#initialized fired but window.ethereum.isKasanova is not true. ",
   "Provider initialized but isKasanova flag not set"}

IsTimeoutError(e) == e # <<>> /\ e[1] \in TimeoutHeads
IsInvalidInitError(e) == e # <<>> /\ e[1] \in InvalidInitHeads
Contains(e, tok) == \E i \in 1..Len(e) : e[i] = tok

\* a handle the claims call valid
ValidHandle(kind, v) ==
  IF kind = "L1" THEN v \in {"kwA", "kwB"} ELSE v \in {"ethA", "ethB"}
\* the provider the first presence check of a wait looks for
ProviderPresent(kind, v) ==
  IF kind = "L1" THEN v \in {"kwA", "kwB", "kwBad"} ELSE v \in {"ethA", "ethB", "ethBad"}
\* the handle an initialization event finds absent or invalid
InvalidAtInit(kind, v) ==
  IF kind = "L1" THEN v \notin {"kwA", "kwB"} ELSE v \notin {"ethA", "ethB", "ethBad"}

\* ------------------------------------------------- claims
\* C1: a wait call invokes resolve and reject together at most once, and once
\* its promise has settled no later handler or timer callback changes the
\* outcome (state, value, error).
C1_SettledAtMostOnce ==
  [][\A c \in Calls :
       /\ call'[c].resolveCalls + call'[c].rejectCalls <= 1
       /\ call[c].promise # "pending" =>
            /\ call'[c].promise = call[c].promise
            /\ call'[c].value = call[c].value
            /\ call'[c].error = call[c].error]_vars

\* C1 witness: the timer callback ran after the call was resolved by an event
C1_Witness ==
  \E c \in Calls :
    /\ call[c].promise = "fulfilled"
    /\ call[c].timer = "fired"
    /\ call[c].resolveCalls + call[c].rejectCalls = 1

\* C2: after a wait call has settled and its executor has returned, no timer
\* of that call is still scheduled.
C2_NoTimerAfterSettle ==
  \A c \in Calls :
    (call[c].promise # "pending" /\ call[c].pc = "returned") => call[c].timer # "scheduled"

\* C3: a settled call has no listener attached, and a call that is pending
\* after its registration has exactly the listeners of its kind attached.
C3_ListenersReleased ==
  \A c \in Calls :
    /\ call[c].promise # "pending" => call[c].listeners = {}
    /\ (call[c].promise = "pending" /\ call[c].pc \in {"dispatching", "returned"})
         => call[c].listeners = ListenersOf(call[c].kind)

\* C4: a wait called while the provider is in the slot takes the immediate
\* path, and the immediate path resolves with the object that was in the slot
\* and registers no listener, schedules no timer and dispatches no event.
C4_ImmediatePresence ==
  [][\A c \in Calls :
       /\ (~Started(call[c]) /\ Started(call'[c])
             /\ ProviderPresent(call'[c].kind, SlotOf(call'[c].kind)))
            => /\ call'[c].path = "immediate"
               /\ call'[c].value = SlotOf(call'[c].kind)
       /\ call'[c].path = "immediate" =>
            /\ call'[c].promise = "fulfilled"
            /\ call'[c].value = call'[c].slotAtStart
            /\ call'[c].pc = "returned"
            /\ call'[c].listeners = {}
            /\ call'[c].timer = "unset"
            /\ ~call'[c].dispatched
            /\ call'[c].rejectCalls = 0]_vars

\* C4 witness: an L1 call resolved at once with a provider that lacks a method
C4_Witness ==
  \E c \in Calls :
    call[c].path = "immediate" /\ call[c].value = "kwBad" /\ call[c].promise = "fulfilled"

\* C5: when an initialization event reaches a waiting call while the slot
\* holds a valid handle, the call is resolved with the handle that was in the
\* slot at the event, its timer is no longer scheduled and reject is never
\* invoked.
C5_InitEventResolves ==
  \A c \in Calls :
    (call[c].initSlot # "none" /\ ValidHandle(call[c].kind, call[c].initSlot))
      => /\ call[c].promise = "fulfilled"
         /\ call[c].value = call[c].initSlot
         /\ call[c].rejectCalls = 0
         /\ call[c].pc = "returned" => call[c].timer # "scheduled"

\* C6: a call whose first check found no provider and that finds a valid
\* provider in the slot when registration ends is resolved with that provider
\* by the time its executor returns.
C6_RecheckResolves ==
  \A c \in Calls :
    (call[c].pc = "returned" /\ ValidHandle(call[c].kind, call[c].slotAfterRegistration))
      => /\ call[c].promise = "fulfilled"
         /\ call[c].value = call[c].slotAfterRegistration

\* C7: a call for which the provider never became present and no qualifying
\* event fired is pending with its timer scheduled, or rejected by the timeout;
\* a timeout rejection never comes before timeoutMs has elapsed since the call,
\* and its message contains the value of timeoutMs.
C7_TimeoutAfterDuration ==
  \A c \in Calls :
    /\ IsTimeoutError(call[c].error) =>
         /\ now >= call[c].startedAt + call[c].timeoutMs
         /\ Contains(call[c].error, ToString(call[c].timeoutMs))
    /\ (call[c].pc = "returned" /\ call[c].quiet /\ call[c].slotAtStart = "undefined")
         => \/ call[c].promise = "pending" /\ call[c].timer = "scheduled"
            \/ call[c].promise = "rejected" /\ IsTimeoutError(call[c].error)

\* C8: a malformed app.kasanova announcement leaves a waiting L2 call as it
\* was (pending, unsettled, both listeners attached, timer not cancelled), and
\* a valid app.kasanova announcement that reaches a waiting call resolves it
\* with the announced provider.
C8_MalformedAnnouncementIgnored ==
  \A c \in Calls :
    /\ (call[c].badAnnounce /\ call[c].goodAnnounce = "none" /\ call[c].initSlot = "none"
          /\ call[c].timer # "fired")
         => /\ call[c].promise = "pending"
            /\ ~call[c].settled
            /\ call[c].listeners = L2Listeners
            /\ call[c].timer # "cleared"
    /\ call[c].goodAnnounce # "none"
         => call[c].promise = "fulfilled" /\ call[c].value = call[c].goodAnnounce

\* C9: when an initialization event reaches a waiting call while the handle is
\* absent or invalid, the call is rejected with the invalid-initialization
\* error and stays rejected.
C9_InvalidInitRejects ==
  \A c \in Calls :
    (call[c].initSlot # "none" /\ InvalidAtInit(call[c].kind, call[c].initSlot))
      => call[c].promise = "rejected" /\ IsInvalidInitError(call[c].error)

Predicates == {"isKasanova", "isKaswareAvailable", "isKasanovaL2Available"}
Accessors == {"getKasanova", "getKaswareProvider", "getKasanovaL2Provider"}

\* C11: in every environment (no window; a slot undefined, null, a primitive
\* or an object) the three predicates return a boolean and never throw, and
\* they return false when there is no window.
C11_PredicatesTotal ==
  probe.fn \in Predicates =>
    /\ probe.result \in {"true", "false"}
    /\ ~hasWindow => probe.result = "false"

\* ------------------------------------------------- outcome of a wait
\* C12: whatever a wait resolves with, on any path, is a non-null provider
\* object; absence is never a resolution value.
C12_ResolvedValueIsObject ==
  \A c \in Calls :
    call[c].promise = "fulfilled" =>
      TypeOf(call[c].value) = "object" /\ call[c].value # "null"

\* C13: every wait eventually settles, given that its timer fires.  Finite
\* form: a call whose executor has returned and whose promise is pending still
\* has its timer scheduled and has not consumed its settled flag, so the timer
\* callback will settle it.
C13_PendingCanStillSettle ==
  \A c \in Calls :
    (call[c].pc = "returned" /\ call[c].promise = "pending") =>
      call[c].timer = "scheduled" /\ ~call[c].settled

\* C14: when dispatching 'eip6963:requestProvider' throws in waitForKasanovaL2
\* the exception is caught: the call leaves the executor with both listeners
\* registered, its timer scheduled and its promise pending, in the very state a
\* dispatch that nobody answered leaves it in, and it is later settled only by
\* an event or by the timeout, never by the dispatch exception.
C14_DispatchFailureCaught ==
  [][\A c \in Calls :
       /\ (~call[c].dispatchThrew /\ call'[c].dispatchThrew) =>
            /\ call'[c].listeners = L2Listeners
            /\ call'[c].timer = "scheduled"
            /\ call'[c].deadline = now + call[c].timeoutMs
            /\ call'[c].promise = "pending"
            /\ ~call'[c].settled
            /\ [call'[c] EXCEPT !.dispatchThrew = FALSE]
                 = setTimeout([call[c] EXCEPT !.slotAfterRegistration = ethereum,
                                              !.dispatched = TRUE])
       /\ call'[c].dispatchThrew =>
            /\ call'[c].error # DispatchError
            /\ call'[c].promise = "fulfilled" => call'[c].path \in {"init", "announce"}
            /\ call'[c].promise = "rejected" => call'[c].path \in {"init", "timeout"}
    ]_vars

C14_Witness ==
  \E c \in Calls :
    /\ call[c].dispatchThrew
    /\ call[c].promise = "fulfilled"
    /\ call[c].path = "announce"
    /\ call[c].value = "ethA"

\* ------------------------------------------------- concurrent calls
\* what a call r can do in one step when it is the only call: r2 is computed
\* from r and the globals alone
SoloStep(r, r2) ==
  \/ r2 = r
  \/ ~Started(r) /\ \E t \in Timeouts : r2 \in {beginKasware(t), beginKasanovaL2(t)}
  \/ r.pc = "registering" /\ r2 = addEventListeners(r)
  \/ /\ r.pc = "registered"
     /\ r.kind = "L1"
     /\ r2 = afterRegistration([r EXCEPT !.slotAfterRegistration = kasware])
  \/ /\ r.pc = "registered"
     /\ r.kind = "L2"
     /\ LET q == [r EXCEPT !.slotAfterRegistration = ethereum] IN
        IF recheck # "continue" THEN r2 = recheckSettles(q)
        ELSE r2 \in {dispatchStarts(q), dispatchFails(q)}
  \/ r.pc = "dispatching" /\ r2 = setTimeout(r)
  \/ r.timer = "scheduled" /\ now >= r.deadline /\ r2 = onTimeout(r)
  \/ \E evt \in InitEvents : r2 = deliverInit(r, evt)
  \/ \E ev \in Announcements : r2 = deliverAnnounce(r, ev)
  \/ r2 = [r EXCEPT !.quiet = FALSE]

\* C15: concurrent wait calls are independent.  Every step changes each call
\* only as that call would change if it were the only one, whatever the other
\* call does in the same step (settling, cleaning up); and a call that is
\* still waiting after its executor returned keeps all its own listeners and
\* its own timer.
C15_CallsIndependent ==
  [][\A c \in Calls :
       /\ SoloStep(call[c], call'[c])
       /\ (Waiting(call'[c]) /\ call'[c].pc = "returned") =>
            /\ call'[c].listeners = ListenersOf(call'[c].kind)
            /\ call'[c].timer = "scheduled"
    ]_vars

\* two waits of the same kind pending at once; the first timed out and the
\* second is still waiting with its listeners and timer
C15_Witness ==
  /\ call[1].kind = "L1" /\ call[2].kind = "L1"
  /\ call[1].promise = "rejected" /\ call[1].path = "timeout"
  /\ call[1].listeners = {}
  /\ call[1].startedAt < call[2].startedAt
  /\ call[2].startedAt < call[1].startedAt + call[1].timeoutMs
  /\ Waiting(call[2]) /\ call[2].pc = "returned"
  /\ call[2].listeners = KaswareListeners
  /\ call[2].timer = "scheduled"

\* ------------------------------------------------- Kasanova's L2 flag
\* objects whose isKasanova is strictly true, and EIP-1193 objects whose
\* isKasanova is missing, false or another value
KasanovaFlagged == {"ethA", "ethB", "ethBad", "ethNoOn"}
GenericProviders == {"ethGeneric", "ethFalse", "ethOne"}

\* C16: isKasanovaL2Available returns true exactly when window.ethereum holds
\* an object whose isKasanova is strictly true; for a generic EIP-1193 object
\* it returns false, getKasanovaL2Provider returns null, and waitForKasanovaL2
\* does not resolve with it on the immediate, re-check and init-event paths.
C16_OnlyKasanovaFlagged ==
  /\ probe.fn = "isKasanovaL2Available" =>
       /\ probe.result = "true" <=> (hasWindow /\ ethereum \in KasanovaFlagged)
       /\ ethereum \in GenericProviders => probe.result = "false"
  /\ (probe.fn = "getKasanovaL2Provider" /\ ethereum \in GenericProviders) =>
       probe.result = "null"
  /\ \A c \in Calls :
       (/\ call[c].kind = "L2"
        /\ call[c].promise = "fulfilled"
        /\ call[c].path \in {"immediate", "recheck", "init"}) =>
         call[c].value \in KasanovaFlagged

\* a generic provider sits in window.ethereum: the accessor returned null and
\* the wait, told by ethereum#initialized to look, rejected
C16_Witness ==
  /\ ethereum = "ethOne"
  /\ probe.fn = "getKasanovaL2Provider"
  /\ probe.result = "null"
  /\ \E c \in Calls :
       /\ call[c].kind = "L2"
       /\ call[c].initSlot = "ethOne"
       /\ call[c].promise = "rejected"
       /\ call[c].path = "init"

\* ------------------------------------------------- purity of the synchronous calls
\* the step is the return of a presence predicate or an accessor
SyncCallReturns == probe' # probe /\ probe'.fn \in Predicates \cup Accessors

\* C17: a presence predicate or accessor called again, with no host write in
\* between, returns what it returned before; and no such call registers a
\* listener, dispatches an event, schedules a timer or changes a global slot.
C17_SyncCallsPure ==
  [][SyncCallReturns =>
       /\ probe'.again => probe'.result = probe.result
       /\ call' = call
       /\ UNCHANGED <<hasWindow, kasanova, kasware, ethereum, now>>
    ]_vars

\* the accessor was called twice in a row while a wait was pending
C17_Witness ==
  /\ probe.fn = "getKasanovaL2Provider"
  /\ probe.again
  /\ probe.result = "ethA"
  /\ \E c \in Calls :
       /\ call[c].kind = "L1"
       /\ Waiting(call[c])
       /\ call[c].listeners = KaswareListeners
       /\ call[c].timer = "scheduled"

\* ------------------------------------------------- accessors and predicates
\* C18: each accessor returns null exactly when its presence predicate returns
\* false, and otherwise the very object in its slot, whatever the slot holds.
C18_AccessorAgreesWithPredicate ==
  /\ probe.fn = "getKasanova" =>
       /\ probe.result = "null" <=> ~isKasanova
       /\ isKasanova => probe.result = kasanova
  /\ probe.fn = "getKaswareProvider" =>
       /\ probe.result = "null" <=> ~isKaswareAvailable
       /\ isKaswareAvailable => probe.result = kasware
  /\ probe.fn = "getKasanovaL2Provider" =>
       /\ probe.result = "null" <=> isKasanovaL2Available = "false"
       /\ isKasanovaL2Available # "false" => probe.result = ethereum

\* ------------------------------------------------- shape checks
\* the inputs that are non-null objects with the minimum operation set
KaswareShaped == {"kwA", "kwB"}
EthereumShaped == {"ethA", "ethB", "ethGeneric", "ethFalse", "ethOne"}

\* C19: hasKaswareShape is true exactly for a non-null object whose
\* requestAccounts, getAccounts and on are functions, hasEthereumProviderShape
\* exactly for a non-null object whose request and on are functions; for every
\* other input (null, undefined, primitives, objects lacking a member) they
\* return false, without throwing and without side effects.
C19_ShapeChecks ==
  [][(probe' # probe /\ probe'.fn \in {"hasKaswareShape", "hasEthereumProviderShape"}) =>
       /\ probe'.result \in {"true", "false"}
       /\ probe'.fn = "hasKaswareShape" =>
            (probe'.result = "true" <=> probe'.arg \in KaswareShaped)
       /\ probe'.fn = "hasEthereumProviderShape" =>
            (probe'.result = "true" <=> probe'.arg \in EthereumShaped)
       /\ call' = call
       /\ UNCHANGED <<hasWindow, kasanova, kasware, ethereum, now>>
    ]_vars

\* an object that has requestAccounts and getAccounts but no on was refused
C19_Witness ==
  /\ probe.fn = "hasKaswareShape"
  /\ probe.arg = "kwBad"
  /\ probe.result = "false"

\* ------------------------------------------------- the host is the only writer
\* code of the package runs in the step: a synchronous function returns, or
\* an executor, listener or timer callback changes a call
PackageActs ==
  \/ probe' # probe /\ probe'.fn # "none"
  \/ \E c \in Calls : [call'[c] EXCEPT !.quiet = call[c].quiet] # call[c]

\* C20: no operation of the package writes window.kasanova, window.kasware or
\* window.ethereum: the slots change only in steps of the host, so they always
\* hold what the host last put there.
C20_SlotsWrittenByHostOnly ==
  [][PackageActs => UNCHANGED <<hasWindow, kasanova, kasware, ethereum>>]_vars

\* predicates, accessors and a wait have run, with its listener settling it,
\* and the three slots are populated
C20_Witness ==
  /\ kasanova = "ns" /\ kasware = "kwA" /\ ethereum = "ethA"
  /\ probe.fn = "getKaswareProvider" /\ probe.result = "kwA"
  /\ \E c \in Calls :
       /\ call[c].promise = "fulfilled"
       /\ call[c].path = "init"
       /\ call[c].listeners = {}

\* ------------------------------------------------- live reads of the slots
\* what a presence check or accessor answers when it reads the slots now
\* (reading isKasanova off a null slot raises)
LiveAnswer(fn) ==
  CASE fn = "isKasanova" -> IF kasanova = "undefined" THEN "false" ELSE "true"
    [] fn = "isKaswareAvailable" -> IF kasware = "undefined" THEN "false" ELSE "true"
    [] fn = "isKasanovaL2Available" ->
         IF ethereum = "null" THEN "throw"
         ELSE IF ethereum \in KasanovaFlagged THEN "true" ELSE "false"
    [] fn = "getKasanova" -> IF kasanova = "undefined" THEN "null" ELSE kasanova
    [] fn = "getKaswareProvider" -> IF kasware = "undefined" THEN "null" ELSE kasware
    [] fn = "getKasanovaL2Provider" ->
         IF ethereum = "null" THEN "throw"
         ELSE IF ethereum \in KasanovaFlagged THEN ethereum ELSE "null"
    [] OTHER -> "none"

\* C21: nothing is cached.  Every presence check and accessor answers from
\* the slot content of the moment of the call, and a wait that resolves on
\* its immediate, re-check or init-event path resolves with the slot content
\* of that moment, not with a value seen earlier.
C21_LiveSlotReads ==
  [][/\ SyncCallReturns => probe'.result = LiveAnswer(probe'.fn)
     /\ \A c \in Calls :
          (/\ call[c].promise = "pending"
           /\ call'[c].promise = "fulfilled"
           /\ call'[c].path \in {"immediate", "recheck", "init"}) =>
            call'[c].value = (IF call'[c].kind = "L1" THEN kasware ELSE ethereum)
    ]_vars

\* the host replaced a generic provider by Kasanova's during the wait, and
\* the wait resolved with the new one
C21_Witness ==
  \E c \in Calls :
    /\ call[c].kind = "L2"
    /\ call[c].slotAtStart = "ethOne"
    /\ call[c].promise = "fulfilled"
    /\ call[c].path = "init"
    /\ call[c].value = "ethA"
    /\ probe.fn = "getKasanovaL2Provider"
    /\ probe.result = "ethA"

\* ------------------------------------------------- synchronous announcement
\* C22: waitForKasanovaL2 has both listeners registered when it dispatches
\* eip6963:requestProvider, so a valid announcement with rdns app.kasanova
\* made while the dispatch runs resolves the promise with the announced
\* provider, and the call does not end in the timeout rejection.
C22_SynchronousAnswerCaptured ==
  [][\A c \in Calls :
       /\ (call'[c].pc = "dispatching" /\ ~call'[c].settled) =>
            call'[c].listeners = L2Listeners
       /\ (/\ call[c].pc = "dispatching"
           /\ call[c].goodAnnounce = "none"
           /\ call'[c].goodAnnounce # "none") =>
            /\ call'[c].promise = "fulfilled"
            /\ call'[c].value = call'[c].goodAnnounce
            /\ call'[c].path = "announce"
       /\ (call[c].goodAnnounce # "none" /\ call[c].path = "announce") =>
            /\ call'[c].promise = "fulfilled"
            /\ call'[c].value = call[c].goodAnnounce
    ]_vars

\* the announcement arrived inside dispatchEvent, before the timer was set
C22_Witness ==
  \E c \in Calls :
    /\ call[c].kind = "L2"
    /\ call[c].pc = "dispatching"
    /\ call[c].timer = "unset"
    /\ call[c].promise = "fulfilled"
    /\ call[c].path = "announce"
    /\ call[c].value = "ethA"

\* ------------------------------------------------- shape of resolved values
\* C23: whatever a wait resolves with, on any path, passes the shape check
\* of its kind.
C23_ResolvedValueHasShape ==
  \A c \in Calls :
    call[c].promise = "fulfilled" =>
      IF call[c].kind = "L1"
      THEN hasKaswareShape(call[c].value)
      ELSE hasEthereumProviderShape(call[c].value)

\* ------------------------------------------------- identification of Kasanova
\* C24: waitForKasanovaL2 resolves only with the content of window.ethereum
\* whose isKasanova is strictly true, or with the provider of an announcement
\* whose rdns is app.kasanova; an announcement with another rdns, or without
\* detail or info, changes nothing of a call: not its promise, its listeners
\* or its timer.
C24_OnlyKasanovaResolves ==
  \A c \in Calls :
    call[c].kind = "L2" =>
      /\ call[c].promise = "fulfilled" =>
           \/ /\ call[c].path \in {"immediate", "recheck", "init"}
              /\ call[c].value \in KasanovaFlagged
           \/ /\ call[c].path = "announce"
              /\ \/ call[c].value = call[c].goodAnnounce
                 \/ call[c].badAnnounce
      /\ \A ev \in Announcements :
           ev.rdns # "app.kasanova" => deliverAnnounce(call[c], ev) = call[c]

\* resolved by Kasanova's announcement while window.ethereum holds a wallet
\* that is not Kasanova's
C24_Witness ==
  \E c \in Calls :
    /\ call[c].kind = "L2"
    /\ call[c].pc = "returned"
    /\ call[c].promise = "fulfilled"
    /\ call[c].path = "announce"
    /\ call[c].value = "ethB"
    /\ ethereum = "ethGeneric"

\* ------------------------------------------------- timeout and the slot
\* C25: a wait rejects with the timeout error only when, at that moment, its
\* slot holds no valid provider; a valid handle put into the slot during the
\* wait, without any event, keeps the call from ending in the timeout.
C25_TimeoutOnlyWhenSlotInvalid ==
  [][\A c \in Calls :
       (/\ call[c].promise = "pending"
        /\ call'[c].promise = "rejected"
        /\ call'[c].path = "timeout") =>
         ~ValidHandle(call[c].kind, SlotOf(call[c].kind))
    ]_vars

\* ------------------------------------------------- malformed handle at the re-check
\* C26: when window.kasware holds an object that fails the shape check at the
\* time waitForKasware has registered its listeners, the re-check does not
\* settle the call: it stays pending with both listeners and its timer, and
\* it is settled later only by an initialization event or by the timeout.
C26_MalformedRecheckKeepsWaiting ==
  \A c \in Calls :
    (/\ call[c].kind = "L1"
     /\ call[c].pc = "returned"
     /\ call[c].slotAfterRegistration = "kwBad") =>
      /\ call[c].path \in {"none", "init", "timeout"}
      /\ call[c].path = "none" =>
           /\ call[c].promise = "pending"
           /\ ~call[c].settled
           /\ call[c].listeners = KaswareListeners
           /\ call[c].timer = "scheduled"

\* the malformed object was there at the re-check, the host completed it and
\* signalled it, and the call resolved
C26_Witness ==
  \E c \in Calls :
    /\ call[c].kind = "L1"
    /\ call[c].slotAfterRegistration = "kwBad"
    /\ call[c].promise = "fulfilled"
    /\ call[c].path = "init"
    /\ call[c].value = "kwA"

\* C27: while the hook is mounted, loading is true exactly when at least one of
\* connect, sendKaspa and signMessage is in flight, whatever the interleaving
\* of overlapping calls.
C27_LoadingWhileInFlight ==
  hook.mounted => (hook.loading <=> hook.pending \cap LoadingOps # {})

\* C28: in every state reached through connect results and the provider events
\* accountsChanged, networkChanged and disconnect (refreshBalance never called),
\* connected = false implies address = null and balance = null.
C28_DisconnectedHasNoAddress ==
  (hook.mounted /\ ~hook.refreshed /\ ~hook.connected)
    => (hook.address = "null" /\ hook.balance = "null")

\* C29: detected never goes from true back to false, and no step leads to a
\* state where detected is true together with the not-detected error.
C29_DetectedWithoutNotDetectedError ==
  [][ /\ (hook.detected => hook'.detected)
      /\ ~(hook'.detected /\ hook'.error = NotDetected) ]_vars

====
